---------------------------- MODULE Spec2Model ----------------------------
(***************************************************************************)
(* MirAI: 3-stage cascade inference (backend/mirai_inference.py) and the   *)
(* Flask facade with its fallback heuristic (app.py).                      *)
(*                                                                         *)
(* Python values are tagged records [t, n, s]:                             *)
(*   t = "num" : a number, n is its value in thousandths (72.5 -> 72500)   *)
(*   t = "str" : a string, s is its sequence of characters                 *)
(*   t = "null": None                                                      *)
(* Probabilities are numbers in thousandths too (0.4 -> 400).              *)
(***************************************************************************)
EXTENDS Integers, Sequences, FiniteSets, TLC

VARIABLES
    dir,            \* the artifacts directory: file -> content, for the files that exist
    artifacts,      \* MirAI_System.artifacts: key -> loaded object
    engine,         \* "unbuilt" | "ok" | "failed": outcome of MirAI_System.__init__
    USE_REAL_MODEL, \* app.py module flag
    caller,         \* "api" (app.py /api/predict) | "main" (direct call of predict)
    pc,             \* position of the run
    request,        \* the JSON body of the request (api)
    patient_data,   \* the dict handed to predict / mock_prediction
    X1, X2, X3,     \* the feature rows handed to the three predictors
    invoked,        \* stages whose predict_proba was called, in call order
    stage1_prob, stage2_prob, stage3_prob,
    stage1_risk, stage2_risk,
    result,         \* the dict returned by predict / mock_prediction
    err,            \* the exception that left predict or the handler body
    response        \* what /api/predict sends back

vars == <<dir, artifacts, engine, USE_REAL_MODEL, caller, pc, request, patient_data,
          X1, X2, X3, invoked, stage1_prob, stage2_prob, stage3_prob,
          stage1_risk, stage2_risk, result, err, response>>

---------------------------------------------------------------------------
(* Python values *)

Num(n) == [t |-> "num", n |-> n, s |-> <<>>]
Whole(k) == Num(k * 1000)
Str(s) == [t |-> "str", n |-> 0, s |-> s]
None == [t |-> "null", n |-> 0, s |-> <<>>]

EmptyDict == [k \in {} |-> None]

\* d.get(k, default)
Get(d, k, default) == IF k \in DOMAIN d THEN d[k] ELSE default

\* d[k] = v
Put(d, k, v) == [x \in DOMAIN d \cup {k} |-> IF x = k THEN v ELSE d[x]]

\* Python truthiness of a value: None, 0 and "" are falsy
Truthy(v) ==
    CASE v.t = "null" -> FALSE
      [] v.t = "num" -> v.n # 0
      [] v.t = "str" -> v.s # <<>>

\* the strings of the model, as character sequences
S_Male == <<"M", "a", "l", "e">>
S_male == <<"m", "a", "l", "e">>
S_MALE == <<"M", "A", "L", "E">>
S_Female == <<"F", "e", "m", "a", "l", "e">>
S_33 == <<"3", "/", "3">>
S_34 == <<"3", "/", "4">>
S_44 == <<"4", "/", "4">>
S_abc == <<"a", "b", "c">>
S_8 == <<"8">>
S_NA == <<"N", "/", "A">>
S_NotProvided == <<"N", "o", "t", " ", "p", "r", "o", "v", "i", "d", "e", "d">>

\* str.lower(), character by character
LowerChar(c) ==
    CASE c = "M" -> "m"
      [] c = "A" -> "a"
      [] c = "L" -> "l"
      [] c = "E" -> "e"
      [] c = "F" -> "f"
      [] OTHER -> c

Lower(s) == [i \in 1..Len(s) |-> LowerChar(s[i])]

\* str.count(c) for a one-character c
RECURSIVE Count(_, _)
Count(s, c) ==
    IF s = <<>> THEN 0
    ELSE (IF Head(s) = c THEN 1 ELSE 0) + Count(Tail(s), c)

---------------------------------------------------------------------------
(* Artifact store: MirAI_System.__init__ / load_artifacts *)

File(stem, ext) == [stem |-> stem, ext |-> ext]

artifact_files ==
    << File("stage1_pipeline", "pkl"),
       File("stage2_pipeline", "pkl"),
       File("stage3_pipeline", "pkl"),
       File("stage1_features", "json"),
       File("stage2_features", "json"),
       File("stage3_features", "json"),
       File("stage1_threshold", "json"),
       File("stage2_threshold", "json") >>

ArtifactFileSet == {artifact_files[i] : i \in 1..Len(artifact_files)}

\* what a file deserializes to: a pickled pipeline, a JSON list or a JSON object
Pipeline == [kind |-> "pipeline", names |-> <<>>, dict |-> [k \in {} |-> 0]]
JsonList(names) == [kind |-> "list", names |-> names, dict |-> [k \in {} |-> 0]]
JsonDict(d) == [kind |-> "dict", names |-> <<>>, dict |-> d]

\* the loop of load_artifacts: every listed file that exists is loaded under its
\* name without the extension
LoadedArtifacts(d) ==
    LET found == {f \in ArtifactFileSet : f \in DOMAIN d /\ f.ext \in {"pkl", "json"}}
    IN [k \in {f.stem : f \in found} |->
            d[CHOOSE f \in found : f.stem = k]]

\* faulty variant: the load fails when no pipeline was loaded
LoadFailsNoPipeline(a) == ~\E k \in DOMAIN a : a[k].kind = "pipeline"

\* `if not self.artifacts: raise FileNotFoundError`
LoadFails(a) == DOMAIN a = {}

FileNotFoundError == [type |-> "FileNotFoundError", arg |-> "No artifacts found"]
NoErr == [type |-> "none", arg |-> ""]
KeyError(k) == [type |-> "KeyError", arg |-> k]


---------------------------------------------------------------------------
(* Feature normalizer *)

\* MirAI_System.preprocess_gender
preprocess_gender(gender) ==
    IF gender.t = "str"
    THEN (IF Lower(gender.s) = S_male THEN Whole(1) ELSE Whole(0))
    ELSE gender

\* MirAI_System.preprocess_apoe4
preprocess_apoe4(genotype) ==
    IF genotype.t = "str"
    THEN Whole(Count(genotype.s, "4"))
    ELSE (IF Truthy(genotype) THEN genotype ELSE Whole(0))

\* lines 76-77 of predict: both keys are (re)written in the caller's dict
Preprocessed(pd) ==
    LET g == Put(pd, "PTGENDER", preprocess_gender(Get(pd, "PTGENDER", Str(S_Male))))
    IN Put(g, "APOE4", preprocess_apoe4(Get(g, "APOE4", Whole(0))))

---------------------------------------------------------------------------
(* Cascade engine: MirAI_System.predict *)

HighCut == 700
ElevatedCut == 400
DefaultThreshold == 500

DefaultStage1Features == <<"AGE", "PTGENDER", "PTEDUCAT", "FAQ", "EcogPtMem", "EcogPtTotal">>

Range(s) == {s[i] : i \in 1..Len(s)}

\* self.artifacts.get('stage1_features', [...])
Stage1Features(a) ==
    IF "stage1_features" \in DOMAIN a THEN a["stage1_features"].names
    ELSE DefaultStage1Features

\* self.artifacts.get(key, {}).get('threshold', 0.5)
Threshold(a, key) ==
    LET d == IF key \in DOMAIN a THEN a[key].dict ELSE [k \in {} |-> 0]
    IN IF "threshold" \in DOMAIN d THEN d["threshold"] ELSE DefaultThreshold

\* 'Elevated' if prob >= threshold else 'Low'
StageRisk(prob, threshold) == IF prob >= threshold THEN "Elevated" ELSE "Low"

\* X1 = pd.DataFrame([{f: patient_data.get(f, 0) for f in stage1_features}])
BuildX1(a, pd) == [f \in Range(Stage1Features(a)) |-> Get(pd, f, Whole(0))]

\* faulty variant: stage 2 is not handed stage 1's probability
BuildX2Default(p1, pd) ==
    [Stage1_Prob |-> Whole(0), APOE4 |-> Get(pd, "APOE4", Whole(0))]

\* X2_data
BuildX2(p1, pd) ==
    [Stage1_Prob |-> Num(p1), APOE4 |-> Get(pd, "APOE4", Whole(0))]

\* X3_data
BuildX3(p2, pd) ==
    [Stage2_Prob |-> Num(p2),
     PTAU |-> Get(pd, "PTAU", Whole(0)),
     ABETA42 |-> Get(pd, "ABETA42", Whole(0)),
     ABETA40 |-> Get(pd, "ABETA40", Whole(0)),
     NFL |-> Get(pd, "NFL", Whole(0))]

\* faulty variant: the cut-points taken exclusive
FinalRiskStrict(p3) ==
    IF p3 > HighCut THEN "High"
    ELSE IF p3 > ElevatedCut THEN "Elevated"
    ELSE "Low"

\* lines 109-114
FinalRisk(p3) ==
    IF p3 >= HighCut THEN "High"
    ELSE IF p3 >= ElevatedCut THEN "Elevated"
    ELSE "Low"

\* an f-string field: the value as interpolated (None prints as the text None)
Format(v) == IF v.t = "null" THEN Str(<<"N", "o", "n", "e">>) ELSE v

Factor(label, v) == [label |-> label, shown |-> Format(v)]

\* lines 125-129
EngineTopFactors(pd) ==
    << Factor("FAQ Score", Get(pd, "FAQ", Str(S_NA))),
       Factor("APOE4 Count", Get(pd, "APOE4", Whole(0))),
       Factor("pTau-217", Get(pd, "PTAU", Str(S_NotProvided))) >>

\* lines 116-130
EngineResult(p1, p2, p3, r1, r2, pd) ==
    [final_risk_score |-> p3,
     final_risk_category |-> FinalRisk(p3),
     stage1_prob |-> p1,
     stage2_prob |-> p2,
     stage3_prob |-> p3,
     stage1_risk |-> r1,
     stage2_risk |-> r2,
     stage3_risk |-> FinalRisk(p3),
     top_factors |-> EngineTopFactors(pd)]

NoResult == [k \in {} |-> 0]
NoRow == [k \in {} |-> None]
Unset == 0 - 1

\* what the three opaque predictors may return as positive-class probability
Probs == {0, 400, 500, 700, 1000}

\* an exception raised inside a predictor's predict_proba
PredictorError == [type |-> "PredictorError", arg |-> "predict_proba failed"]


---------------------------------------------------------------------------
(* Fallback heuristic: app.py mock_prediction *)

Min(a, b) == IF a <= b THEN a ELSE b

\* int(x) of a number: truncation toward zero, as a whole number
IntOf(v) == IF v.n >= 0 THEN v.n \div 1000 ELSE 0 - ((0 - v.n) \div 1000)

\* round(x) of a float given in thousandths: nearest whole, ties to the even one
PyRound(m) ==
    LET q == m \div 1000
        r == m % 1000
    IN IF r < 500 THEN q
       ELSE IF r > 500 THEN q + 1
       ELSE IF q % 2 = 0 THEN q ELSE q + 1

\* lines 32-34
AgeBonus(age) == IF age > 75 THEN 20 ELSE IF age > 65 THEN 10 ELSE 0

\* lines 41-43 (ptau in thousandths)
PtauBonus(ptau) == IF ptau > 600 THEN 20 ELSE IF ptau > 300 THEN 10 ELSE 0

\* faulty variant: the age rounded, not truncated
MockAgeRounded(data) == PyRound(Get(data, "AGE", Whole(65)).n)

\* line 32: age = int(data.get('AGE', 65))
MockAge(data) == IntOf(Get(data, "AGE", Whole(65)))

\* lines 31-43: the running sum, in thousandths (FAQ is a multiple of 0.5 in the
\* model, so faq * 1.5 is exact)
MockSum(data) ==
    LET faq == Get(data, "FAQ", Whole(0)).n
        ecog == Get(data, "EcogPtMem", Whole(1)).n
        apoe4 == IntOf(Get(data, "APOE4", Whole(0)))
        ptau == Get(data, "PTAU", Whole(0)).n
    IN 15000 + AgeBonus(MockAge(data)) * 1000 + (3 * faq) \div 2
       + (ecog - 1000) * 10 + apoe4 * 12000 + PtauBonus(ptau) * 1000

\* faulty variant: the score not clamped to 100
MockScoreUnclamped(data) == PyRound(MockSum(data))

\* line 44
MockScore(data) == Min(PyRound(MockSum(data)), 100)

\* lines 54-58
MockTopFactors(data) ==
    LET faq == Num(Get(data, "FAQ", Whole(0)).n)
        apoe4 == Whole(IntOf(Get(data, "APOE4", Whole(0))))
        ptau == Num(Get(data, "PTAU", Whole(0)).n)
    IN << Factor("FAQ Score", faq),
          Factor("APOE4 Count", apoe4),
          Factor("pTau-217", IF ptau.n > 0 THEN ptau ELSE Str(S_NotProvided)) >>

\* lines 46-59 (probabilities in thousandths: score / 100 is score * 10)
mock_prediction(data) ==
    LET score == MockScore(data)
        apoe4 == IntOf(Get(data, "APOE4", Whole(0)))
        ptau == Get(data, "PTAU", Whole(0)).n
    IN [final_risk_score |-> score * 10,
        stage1_prob |-> Min(score * 8, 950),
        stage2_prob |-> Min(score * 9, 980),
        stage3_prob |-> score * 10,
        stage1_risk |-> IF score < 30 THEN "Low"
                        ELSE IF score < 60 THEN "Elevated" ELSE "High",
        stage2_risk |-> IF apoe4 > 0 THEN "Elevated" ELSE "Low",
        stage3_risk |-> IF ptau > 500 THEN "Elevated"
                        ELSE IF ptau > 0 THEN "Normal" ELSE "Not Tested",
        top_factors |-> MockTopFactors(data)]

---------------------------------------------------------------------------
(* Serving facade: app.py predict *)

Digits == <<"0", "1", "2", "3", "4", "5", "6", "7", "8", "9">>

IsDigit(c) == \E i \in 1..Len(Digits) : Digits[i] = c
DigitVal(c) == (CHOOSE i \in 1..Len(Digits) : Digits[i] = c) - 1

RECURSIVE ParseDigits(_, _)
ParseDigits(s, acc) ==
    IF s = <<>> THEN acc
    ELSE ParseDigits(Tail(s), acc * 10 + DigitVal(Head(s)))

Ok(v) == [ok |-> TRUE, v |-> v, e |-> NoErr]
Raised(type, arg) == [ok |-> FALSE, v |-> None, e |-> [type |-> type, arg |-> arg]]

\* float(x): a number stays, a string of digits is parsed, any other string is a
\* ValueError and None a TypeError
Float(v) ==
    CASE v.t = "num" -> Ok(v)
      [] v.t = "null" -> Raised("TypeError", "float() argument must be a string or a number")
      [] v.t = "str" ->
            IF v.s # <<>> /\ \A i \in 1..Len(v.s) : IsDigit(v.s[i])
            THEN Ok(Whole(ParseDigits(v.s, 0)))
            ELSE Raised("ValueError", "could not convert string to float")

\* x or 0
OrZero(v) == IF Truthy(v) THEN v ELSE Whole(0)

\* app.py parse_apoe4
parse_apoe4(genotype) ==
    IF ~Truthy(genotype) THEN Ok(Whole(0))
    ELSE IF genotype.t = "str" THEN Ok(Whole(Count(genotype.s, "4")))
    ELSE Raised("AttributeError", "object has no attribute 'count'")

\* lines 77-89, in evaluation order: <<key, outcome>>
PatientFields(data) ==
    << <<"AGE", Float(Get(data, "age", Whole(65)))>>,
       <<"PTGENDER", Ok(Get(data, "gender", Str(S_Male)))>>,
       <<"PTEDUCAT", Float(Get(data, "education", Whole(16)))>>,
       <<"FAQ", Float(Get(data, "faq", Whole(0)))>>,
       <<"EcogPtMem", Float(Get(data, "ecogMem", Whole(1)))>>,
       <<"EcogPtTotal", Float(Get(data, "ecogTotal", Whole(1)))>>,
       <<"APOE4", parse_apoe4(Get(data, "genotype", Str(<<>>)))>>,
       <<"PTAU", Float(OrZero(Get(data, "ptau217", Whole(0))))>>,
       <<"ABETA42", Float(OrZero(Get(data, "ab42", Whole(0))))>>,
       <<"ABETA40", Float(OrZero(Get(data, "ab40", Whole(0))))>>,
       <<"NFL", Float(OrZero(Get(data, "nfl", Whole(0))))>> >>

\* whether building patient_data raises, and the first exception raised
CoercionFails(data) == \E i \in 1..Len(PatientFields(data)) : ~PatientFields(data)[i][2].ok

CoercionError(data) ==
    LET fs == PatientFields(data)
        i == CHOOSE j \in 1..Len(fs) : ~fs[j][2].ok /\ \A k \in 1..(j - 1) : fs[k][2].ok
    IN fs[i][2].e

BuildPatientData(data) ==
    LET fs == PatientFields(data)
    IN [k \in {fs[i][1] : i \in 1..Len(fs)} |->
            fs[CHOOSE i \in 1..Len(fs) : fs[i][1] = k][2].v]

NoResponse == [status |-> 0, success |-> FALSE, error |-> "", prediction |-> NoResult,
               model_type |-> ""]

\* lines 96-100
OkResponse(res, real) ==
    [status |-> 200, success |-> TRUE, error |-> "", prediction |-> res,
     model_type |-> IF real THEN "real" ELSE "mock"]

\* lines 102-103: str(e) is the exception's text only
ErrorResponse(e) ==
    [status |-> 500, success |-> FALSE, error |-> e.arg, prediction |-> NoResult,
     model_type |-> ""]


---------------------------------------------------------------------------
(* Actions *)

NoArtifacts == [k \in {} |-> Pipeline]

storeVars == <<dir, artifacts, engine, USE_REAL_MODEL>>
callVars == <<caller, request>>
stageVars == <<X1, X2, X3, invoked, stage1_prob, stage2_prob, stage3_prob,
               stage1_risk, stage2_risk>>

\* faulty variant: a failing call hands back what was computed so far
FailPartial(e) ==
    /\ pc' = "done"
    /\ err' = e
    /\ result' = [stage1_prob |-> stage1_prob, stage2_prob |-> stage2_prob]
    /\ response' = IF caller = "api" THEN OkResponse(result', TRUE) ELSE NoResponse

\* an exception leaves predict (which catches nothing) or the handler body; the
\* handler's `except Exception` turns it into the 500 response
Fail(e) ==
    /\ pc' = "done"
    /\ err' = e
    /\ result' = NoResult
    /\ response' = IF caller = "api" THEN ErrorResponse(e) ELSE NoResponse

\* predict returns res; the handler wraps it
Return(res) ==
    /\ pc' = "done"
    /\ err' = NoErr
    /\ result' = res
    /\ response' = IF caller = "api" THEN OkResponse(res, TRUE) ELSE NoResponse

\* app.py lines 18-26: the module-level try/except around MirAI_System(...)
Startup ==
    /\ pc = "boot" /\ caller = "api"
    /\ artifacts' = LoadedArtifacts(dir)
    /\ engine' = IF LoadFails(artifacts') THEN "failed" ELSE "ok"
    /\ USE_REAL_MODEL' = ~LoadFails(artifacts')
    /\ pc' = "serving"
    /\ UNCHANGED <<dir, callVars, patient_data, stageVars, result, err, response>>

\* mirai_inference.py line 153: MirAI_System(...) returns
ConstructOk ==
    /\ pc = "boot" /\ caller = "main"
    /\ artifacts' = LoadedArtifacts(dir)
    /\ ~LoadFails(artifacts')
    /\ engine' = "ok"
    /\ pc' = "stage1"
    /\ UNCHANGED <<dir, USE_REAL_MODEL, callVars, patient_data, stageVars, result, err,
                   response>>

\* mirai_inference.py lines 50-51, 157: load_artifacts raises
ConstructFails ==
    /\ pc = "boot" /\ caller = "main"
    /\ artifacts' = LoadedArtifacts(dir)
    /\ LoadFails(artifacts')
    /\ engine' = "failed"
    /\ Fail(FileNotFoundError)
    /\ UNCHANGED <<dir, USE_REAL_MODEL, callVars, patient_data, stageVars>>

\* app.py lines 75-89, 102-103: building patient_data raises
ApiBadInput ==
    /\ pc = "serving"
    /\ CoercionFails(request)
    /\ Fail(CoercionError(request))
    /\ UNCHANGED <<storeVars, callVars, patient_data, stageVars>>

\* app.py lines 75-100 with USE_REAL_MODEL false
ApiMock ==
    /\ pc = "serving"
    /\ ~CoercionFails(request)
    /\ ~USE_REAL_MODEL
    /\ patient_data' = BuildPatientData(request)
    /\ pc' = "done"
    /\ err' = NoErr
    /\ result' = mock_prediction(patient_data')
    /\ response' = OkResponse(result', FALSE)
    /\ UNCHANGED <<storeVars, callVars, stageVars>>

\* app.py lines 75-92 with USE_REAL_MODEL true: mirai.predict is entered
ApiReal ==
    /\ pc = "serving"
    /\ ~CoercionFails(request)
    /\ USE_REAL_MODEL
    /\ patient_data' = BuildPatientData(request)
    /\ pc' = "stage1"
    /\ UNCHANGED <<storeVars, callVars, stageVars, result, err, response>>

\* predict lines 76-83 without a stage 1 pipeline: self.artifacts[...] raises
Stage1Missing ==
    /\ pc = "stage1"
    /\ patient_data' = Preprocessed(patient_data)
    /\ X1' = BuildX1(artifacts, patient_data')
    /\ "stage1_pipeline" \notin DOMAIN artifacts
    /\ Fail(KeyError("stage1_pipeline"))
    /\ UNCHANGED <<storeVars, callVars, X2, X3, invoked, stage1_prob, stage2_prob,
                   stage3_prob, stage1_risk, stage2_risk>>

\* predict lines 76-83: predict_proba of stage 1 raises
Stage1Raises ==
    /\ pc = "stage1"
    /\ patient_data' = Preprocessed(patient_data)
    /\ X1' = BuildX1(artifacts, patient_data')
    /\ "stage1_pipeline" \in DOMAIN artifacts
    /\ invoked' = Append(invoked, 1)
    /\ Fail(PredictorError)
    /\ UNCHANGED <<storeVars, callVars, X2, X3, stage1_prob, stage2_prob,
                   stage3_prob, stage1_risk, stage2_risk>>

\* predict lines 76-85
Stage1Returns ==
    /\ pc = "stage1"
    /\ patient_data' = Preprocessed(patient_data)
    /\ X1' = BuildX1(artifacts, patient_data')
    /\ "stage1_pipeline" \in DOMAIN artifacts
    /\ invoked' = Append(invoked, 1)
    /\ \E p \in Probs : stage1_prob' = p
    /\ stage1_risk' = StageRisk(stage1_prob', Threshold(artifacts, "stage1_threshold"))
    /\ pc' = "stage2"
    /\ UNCHANGED <<storeVars, callVars, X2, X3, stage2_prob, stage3_prob, stage2_risk,
                   result, err, response>>

\* faulty variant: a missing stage 2 pipeline is skipped, stage 1's probability passed on
Stage2MissingSkips ==
    /\ pc = "stage2"
    /\ X2' = BuildX2(stage1_prob, patient_data)
    /\ "stage2_pipeline" \notin DOMAIN artifacts
    /\ stage2_prob' = stage1_prob
    /\ stage2_risk' = StageRisk(stage2_prob', Threshold(artifacts, "stage2_threshold"))
    /\ pc' = "stage3"
    /\ UNCHANGED <<storeVars, callVars, patient_data, X1, X3, invoked, stage1_prob,
                   stage3_prob, stage1_risk, result, err, response>>

\* predict lines 88-91 without a stage 2 pipeline
Stage2Missing ==
    /\ pc = "stage2"
    /\ X2' = BuildX2(stage1_prob, patient_data)
    /\ "stage2_pipeline" \notin DOMAIN artifacts
    /\ Fail(KeyError("stage2_pipeline"))
    /\ UNCHANGED <<storeVars, callVars, patient_data, X1, X3, invoked, stage1_prob,
                   stage2_prob, stage3_prob, stage1_risk, stage2_risk>>

\* predict lines 88-91: predict_proba of stage 2 raises
Stage2Raises ==
    /\ pc = "stage2"
    /\ X2' = BuildX2(stage1_prob, patient_data)
    /\ "stage2_pipeline" \in DOMAIN artifacts
    /\ invoked' = Append(invoked, 2)
    /\ Fail(PredictorError)
    /\ UNCHANGED <<storeVars, callVars, patient_data, X1, X3, stage1_prob,
                   stage2_prob, stage3_prob, stage1_risk, stage2_risk>>

\* predict lines 88-93
Stage2Returns ==
    /\ pc = "stage2"
    /\ X2' = BuildX2(stage1_prob, patient_data)
    /\ "stage2_pipeline" \in DOMAIN artifacts
    /\ invoked' = Append(invoked, 2)
    /\ \E p \in Probs : stage2_prob' = p
    /\ stage2_risk' = StageRisk(stage2_prob', Threshold(artifacts, "stage2_threshold"))
    /\ pc' = "stage3"
    /\ UNCHANGED <<storeVars, callVars, patient_data, X1, X3, stage1_prob, stage3_prob,
                   stage1_risk, result, err, response>>

\* predict lines 96-106 without a stage 3 pipeline
Stage3Missing ==
    /\ pc = "stage3"
    /\ X3' = BuildX3(stage2_prob, patient_data)
    /\ "stage3_pipeline" \notin DOMAIN artifacts
    /\ Fail(KeyError("stage3_pipeline"))
    /\ UNCHANGED <<storeVars, callVars, patient_data, X1, X2, invoked, stage1_prob,
                   stage2_prob, stage3_prob, stage1_risk, stage2_risk>>

\* predict lines 96-106: predict_proba of stage 3 raises
Stage3Raises ==
    /\ pc = "stage3"
    /\ X3' = BuildX3(stage2_prob, patient_data)
    /\ "stage3_pipeline" \in DOMAIN artifacts
    /\ invoked' = Append(invoked, 3)
    /\ Fail(PredictorError)
    /\ UNCHANGED <<storeVars, callVars, patient_data, X1, X2, stage1_prob,
                   stage2_prob, stage3_prob, stage1_risk, stage2_risk>>

\* predict lines 96-130
Stage3Returns ==
    /\ pc = "stage3"
    /\ X3' = BuildX3(stage2_prob, patient_data)
    /\ "stage3_pipeline" \in DOMAIN artifacts
    /\ invoked' = Append(invoked, 3)
    /\ \E p \in Probs : stage3_prob' = p
    /\ Return(EngineResult(stage1_prob, stage2_prob, stage3_prob',
                           stage1_risk, stage2_risk, patient_data))
    /\ UNCHANGED <<storeVars, callVars, patient_data, X1, X2, stage1_prob,
                   stage2_prob, stage1_risk, stage2_risk>>


---------------------------------------------------------------------------
(* Inputs *)

PklFiles == {f \in ArtifactFileSet : f.ext = "pkl"}
OtherFile == File("model", "ipynb")

AltStage1Features == <<"AGE", "FAQ">>
DefaultStage2Features == <<"Stage1_Prob", "APOE4">>
DefaultStage3Features == <<"Stage2_Prob", "PTAU", "ABETA42", "ABETA40", "NFL">>

\* a directory: the pipelines in pipes, and for every other file the set (empty or
\* one element) of its content
MkDir(pipes, f1, f2, f3, t1, t2, other) ==
    LET opt(f) ==
            CASE f.ext = "pkl" -> IF f \in pipes THEN {Pipeline} ELSE {}
              [] f.stem = "stage1_features" -> f1
              [] f.stem = "stage2_features" -> f2
              [] f.stem = "stage3_features" -> f3
              [] f.stem = "stage1_threshold" -> t1
              [] f.stem = "stage2_threshold" -> t2
              [] OTHER -> other
        present == {f \in ArtifactFileSet \cup {OtherFile} : opt(f) # {}}
    IN [f \in present |-> CHOOSE c \in opt(f) : TRUE]

ThresholdFile(t) == JsonDict([threshold |-> t])
EmptyJson == JsonDict([k \in {} |-> 0])

Pipes(n) == {f \in PklFiles : f.stem \in {artifact_files[i].stem : i \in 1..n}}

\* sample_patient of mirai_inference.py
SamplePatient ==
    [AGE |-> Whole(72), PTGENDER |-> Str(S_Female), PTEDUCAT |-> Whole(16),
     FAQ |-> Whole(8), EcogPtMem |-> Num(2500), EcogPtTotal |-> Whole(2),
     APOE4 |-> Whole(1), PTAU |-> Num(450), ABETA42 |-> Num(15200),
     ABETA40 |-> Num(180500), NFL |-> Whole(22)]

NumericFields ==
    {"AGE", "PTEDUCAT", "FAQ", "EcogPtMem", "EcogPtTotal", "PTAU", "ABETA42",
     "ABETA40", "NFL"}
Biomarkers == {"PTAU", "ABETA42", "ABETA40", "NFL"}

Without(d, ks) == [x \in DOMAIN d \ ks |-> d[x]]

\* the sample request of the facade
SampleRequest ==
    [age |-> Whole(72), gender |-> Str(S_Female), education |-> Whole(16),
     faq |-> Whole(8), ecogMem |-> Num(2500), ecogTotal |-> Whole(2),
     genotype |-> Str(S_34), ptau217 |-> Num(450), ab42 |-> Num(15200),
     ab40 |-> Num(180500), nfl |-> Whole(22)]

\* a request: the sample with some keys set to v, a key with an empty set left out
Vary(d, k, opt) == IF opt = {} THEN Without(d, {k}) ELSE Put(d, k, CHOOSE v \in opt : TRUE)

InitRest ==
    /\ artifacts = NoArtifacts
    /\ engine = "unbuilt"
    /\ USE_REAL_MODEL = FALSE
    /\ pc = "boot"
    /\ X1 = NoRow /\ X2 = NoRow /\ X3 = NoRow
    /\ invoked = <<>>
    /\ stage1_prob = Unset /\ stage2_prob = Unset /\ stage3_prob = Unset
    /\ stage1_risk = "" /\ stage2_risk = ""
    /\ result = NoResult
    /\ err = NoErr
    /\ response = NoResponse

---------------------------------------------------------------------------
(* SpecLoad: constructing MirAI_System over every combination of files *)

InitLoad ==
    /\ \E pipes \in SUBSET PklFiles,
          f1 \in {{}, {JsonList(DefaultStage1Features)}, {JsonList(AltStage1Features)}},
          f2 \in {{}, {JsonList(DefaultStage2Features)}},
          f3 \in {{}, {JsonList(DefaultStage3Features)}},
          t1 \in {{}, {ThresholdFile(700)}, {EmptyJson}},
          t2 \in {{}, {ThresholdFile(700)}},
          other \in {{}, {EmptyJson}} :
            dir = MkDir(pipes, f1, f2, f3, t1, t2, other)
    /\ caller = "main"
    /\ request = EmptyDict
    /\ patient_data = SamplePatient
    /\ InitRest

NextLoad == ConstructOk \/ ConstructFails

SpecLoad == InitLoad /\ [][NextLoad]_vars

---------------------------------------------------------------------------
(* SpecEngine: MirAI_System.predict called directly with a patient dict *)

EngineRecords ==
    {SamplePatient, EmptyDict, Without(SamplePatient, Biomarkers)}
    \cup {Without(SamplePatient, {f}) : f \in NumericFields \cup {"PTGENDER", "APOE4"}}
    \cup {Put(SamplePatient, f, None) : f \in NumericFields \cup {"APOE4"}}
    \cup {Put(SamplePatient, f, Whole(0)) : f \in NumericFields}
    \cup {Put(SamplePatient, "PTGENDER", g) : g \in {Str(S_male), Str(S_MALE), Whole(1)}}
    \cup {Put(SamplePatient, "APOE4", g) : g \in {Str(S_33), Str(S_34), Str(S_44)}}

InitEngine ==
    /\ \E pipes \in SUBSET PklFiles,
          f1 \in {{}, {JsonList(AltStage1Features)}},
          t1 \in {{}, {ThresholdFile(700)}, {EmptyJson}},
          t2 \in {{}, {ThresholdFile(400)}} :
            dir = MkDir(pipes, f1, {}, {}, t1, t2, {})
    /\ caller = "main"
    /\ request = EmptyDict
    /\ patient_data \in EngineRecords
    /\ InitRest

NextEngine ==
    \/ ConstructOk \/ ConstructFails
    \/ Stage1Missing \/ Stage1Raises \/ Stage1Returns
    \/ Stage2Missing \/ Stage2Raises \/ Stage2Returns
    \/ Stage3Missing \/ Stage3Raises \/ Stage3Returns

SpecEngine == InitEngine /\ [][NextEngine]_vars

---------------------------------------------------------------------------
(* SpecMock: the facade without artifacts, over a grid of numeric requests *)

MaxFaqHalves == 20

MockAges == {64000, 65000, 65500, 66000, 75000, 75500, 76000, 80000}
MockFaqs == {k * 500 : k \in 0..MaxFaqHalves}
MockEcogs == {1000, 1250, 2000, 4000}
MockGenotypes == {S_33, S_34, S_44}
MockPtaus == {0, 300, 450, 600, 700}

InitMock ==
    /\ dir = MkDir({}, {}, {}, {}, {}, {}, {EmptyJson})
    /\ caller = "api"
    /\ \E a \in MockAges, f \in MockFaqs, e \in MockEcogs, g \in MockGenotypes,
          p \in MockPtaus :
            request = [age |-> Num(a), gender |-> Str(S_Female), education |-> Whole(16),
                       faq |-> Num(f), ecogMem |-> Num(e), ecogTotal |-> Whole(2),
                       genotype |-> Str(g), ptau217 |-> Num(p)]
    /\ patient_data = EmptyDict
    /\ InitRest

NextMock == Startup \/ ApiMock

SpecMock == InitMock /\ [][NextMock]_vars

---------------------------------------------------------------------------
(* Spec: the facade, with and without artifacts *)

AppDirs ==
    {MkDir(Pipes(n), {}, {}, {}, t1, {}, {}) :
        n \in 0..3, t1 \in {{}, {ThresholdFile(700)}}}

AppRequests ==
    {Vary(Vary(Vary(Vary(Vary(SampleRequest, "faq", f), "ptau217", p), "genotype", g),
               "age", a), "ecogMem", e) :
        f \in {{}, {Whole(0)}, {Whole(8)}, {Str(S_8)}, {Str(S_abc)}},
        p \in {{}, {None}, {Whole(0)}, {Num(700)}},
        g \in {{}, {Str(S_44)}},
        a \in {{None}, {Num(75500)}, {Whole(80)}},
        e \in {{Num(2500)}, {Whole(4)}}}

Init ==
    /\ dir \in AppDirs
    /\ caller = "api"
    /\ request \in AppRequests
    /\ patient_data = EmptyDict
    /\ InitRest

Next ==
    \/ Startup
    \/ ApiBadInput \/ ApiMock \/ ApiReal
    \/ Stage1Missing \/ Stage1Raises \/ Stage1Returns
    \/ Stage2Missing \/ Stage2Raises \/ Stage2Returns
    \/ Stage3Missing \/ Stage3Raises \/ Stage3Returns

Spec == Init /\ [][Next]_vars


---------------------------------------------------------------------------
(* Claims *)

Returned == pc = "done" /\ DOMAIN result # {}

\* C1: the category of a returned result is High when stage3_prob >= 0.7, Elevated
\* when 0.4 <= stage3_prob < 0.7 and Low otherwise, whatever thresholds were loaded
\* and whatever stages 1 and 2 returned.
C1_FinalCategory ==
    Returned =>
        /\ result.stage3_prob = stage3_prob
        /\ (stage3_prob >= 700 => result.final_risk_category = "High")
        /\ (stage3_prob >= 400 /\ stage3_prob < 700 =>
                result.final_risk_category = "Elevated")
        /\ (stage3_prob < 400 => result.final_risk_category = "Low")

C1_Witness ==
    /\ Returned
    /\ stage3_prob = 400 /\ result.final_risk_category = "Elevated"
    /\ Threshold(artifacts, "stage1_threshold") = 700
    /\ stage1_prob = 1000 /\ stage2_prob = 0

\* C2: construction fails with the load error exactly when none of the 8 named files
\* is in the directory; otherwise it succeeds and the artifact set holds exactly the
\* named files that were present, each under its name without the extension.
C2_LoadFailsIffNoArtifact ==
    LET present == DOMAIN dir \cap ArtifactFileSet
    IN engine # "unbuilt" =>
        /\ Cardinality(ArtifactFileSet) = 8
        /\ (engine = "failed") <=> (present = {})
        /\ engine = "failed" => err = FileNotFoundError /\ pc = "done"
        /\ engine = "ok" =>
            /\ err = NoErr
            /\ DOMAIN artifacts = {f.stem : f \in present}
            /\ \A f \in present : artifacts[f.stem] = dir[f]

C2_Witness ==
    /\ engine = "ok"
    /\ DOMAIN dir \cap PklFiles = {}
    /\ DOMAIN artifacts = {"stage1_threshold"}

\* C3: with the stage 1 pipeline but not the stage 2 pipeline in the directory,
\* construction succeeds and a finished call of predict has failed without a result
\* record, with stage 1 invoked and stages 2 and 3 never invoked; once the stage 1
\* predictor has returned, the error is the missing-key error naming stage2_pipeline.
C3_MissingStage2 ==
    LET has(stem) == \E f \in DOMAIN dir : f.stem = stem /\ f.ext = "pkl"
    IN (has("stage1_pipeline") /\ ~has("stage2_pipeline")) =>
        /\ pc # "boot" => engine = "ok"
        /\ pc \notin {"stage3"}
        /\ X3 = NoRow
        /\ \A i \in 1..Len(invoked) : invoked[i] = 1
        /\ pc = "done" =>
            /\ invoked = <<1>>
            /\ result = NoResult
            /\ err # NoErr
            /\ stage1_prob # Unset => err = KeyError("stage2_pipeline")

C3_Witness ==
    /\ pc = "done"
    /\ \E f \in DOMAIN dir : f.stem = "stage3_pipeline"
    /\ ~\E f \in DOMAIN dir : f.stem = "stage2_pipeline"
    /\ invoked = <<1>> /\ stage1_prob = 700
    /\ err = KeyError("stage2_pipeline")

\* C4: a numeric field that is absent from the patient record, or present with a
\* null value, is 0 in every feature row that holds it.
C4_AbsentOrNullIsZero ==
    \A f \in NumericFields :
        (f \notin DOMAIN patient_data \/ patient_data[f] = None) =>
            /\ f \in DOMAIN X1 => X1[f] = Whole(0)
            /\ f \in DOMAIN X3 => X3[f] = Whole(0)

\* the stage an exception's text names, 0 when it names none
StageNamed(e) ==
    CASE e.arg = "stage1_pipeline" -> 1
      [] e.arg = "stage2_pipeline" -> 2
      [] e.arg = "stage3_pipeline" -> 3
      [] OTHER -> 0

CoercionErrors == {"ValueError", "TypeError", "AttributeError"}

NearestEven(m) ==
    LET lo == m \div 1000
        d(k) == IF 1000 * k >= m THEN 1000 * k - m ELSE m - 1000 * k
    IN CHOOSE k \in {lo, lo + 1} :
            \/ 2 * d(k) < 1000
            \/ 2 * d(k) = 1000 /\ k % 2 = 0

\* the score of the heuristic for the request's values, the age bonus taken on age a
\* (in thousandths)
HeuristicScore(a) ==
    LET ageBonus == IF a > 75000 THEN 20 ELSE IF a > 65000 THEN 10 ELSE 0
        ptau == request.ptau217.n
        ptauBonus == IF ptau > 600 THEN 20 ELSE IF ptau > 300 THEN 10 ELSE 0
        count == Cardinality({i \in DOMAIN request.genotype.s :
                                request.genotype.s[i] = "4"})
        quarters == 60 + 4 * ageBonus + 3 * (request.faq.n \div 500)
                    + (request.ecogMem.n - 1000) \div 25 + 48 * count + 4 * ptauBonus
        rounded == NearestEven(quarters * 250)
    IN IF rounded < 100 THEN rounded ELSE 100

\* C6 as stated: the age bonus is taken on the age as given, non-integer ages included.
C6_ScoreOnExactAge ==
    Returned => result.final_risk_score = 10 * HeuristicScore(request.age.n)

\* C6 as amended: the age bonus is taken on the age truncated to a whole number of
\* years (int(age)); round is Python's, ties going to the even integer.
C6_ScoreOnTruncatedAge ==
    Returned =>
        result.final_risk_score = 10 * HeuristicScore((request.age.n \div 1000) * 1000)

C6_Witness ==
    /\ Returned
    /\ request.age = Num(75500) /\ request.faq = Whole(1) /\ request.ecogMem = Whole(1)
    /\ request.genotype = Str(S_33) /\ request.ptau217 = Whole(0)
    /\ result.final_risk_score = 260

\* C7: the three stage probabilities and the final score of every returned result lie
\* in [0,1], from the engine (predictors returning values in [0,1]) and from the
\* heuristic.
C7_ProbabilitiesInUnitInterval ==
    Returned =>
        \A k \in {"stage1_prob", "stage2_prob", "stage3_prob", "final_risk_score"} :
            result[k] >= 0 /\ result[k] <= 1000

C7_Witness ==
    /\ Returned
    /\ response.model_type = "mock"
    /\ request.age = Whole(80) /\ request.ecogMem = Whole(4)
    /\ result.stage3_prob = 1000 /\ result.stage1_prob = 800 /\ result.stage2_prob = 900

CascadeResultFields ==
    {"final_risk_score", "final_risk_category", "stage1_prob", "stage2_prob",
     "stage3_prob", "stage1_risk", "stage2_risk", "stage3_risk", "top_factors"}

\* C8: every returned result, from the engine or from the heuristic, has exactly the
\* fields of a CascadeResult, with final_risk_score equal to stage3_prob.
C8_SameShape ==
    Returned =>
        /\ DOMAIN result = CascadeResultFields
        /\ result.final_risk_score = result.stage3_prob

Sentinels == {Str(S_NA), Str(S_NotProvided)}

\* C9: top_factors is the FAQ, APOE4 and pTau entries in that order, and an entry
\* shows a sentinel exactly when its raw value is absent from the request payload.
C9_SentinelIffAbsent ==
    Returned =>
        LET tf == result.top_factors
            raw == <<"faq", "genotype", "ptau217">>
        IN /\ Len(tf) = 3
           /\ <<tf[1].label, tf[2].label, tf[3].label>> =
                <<"FAQ Score", "APOE4 Count", "pTau-217">>
           /\ \A i \in 1..3 :
                (tf[i].shown \in Sentinels) <=> (raw[i] \notin DOMAIN request)

\* C10: the predictors are invoked in the order 1, 2, 3, each at most once; stage 2
\* is handed the probability stage 1 returned, stage 3 the probability stage 2
\* returned, and a result is assembled only after stage 3 returned, holding the three
\* returned probabilities.
C10_CascadeOrder ==
    /\ Len(invoked) <= 3
    /\ \A i \in 1..Len(invoked) : invoked[i] = i
    /\ Len(invoked) >= 2 =>
        /\ stage1_prob \in Probs
        /\ X2.Stage1_Prob = Num(stage1_prob)
    /\ Len(invoked) >= 3 =>
        /\ stage2_prob \in Probs
        /\ X3.Stage2_Prob = Num(stage2_prob)
    /\ X2 # NoRow => Len(invoked) >= 1 /\ stage1_prob \in Probs
    /\ X3 # NoRow => Len(invoked) >= 2 /\ stage2_prob \in Probs
    /\ DOMAIN result # {} =>
        /\ invoked = <<1, 2, 3>> /\ stage3_prob \in Probs
        /\ result.stage1_prob = stage1_prob
        /\ result.stage2_prob = stage2_prob
        /\ result.stage3_prob = stage3_prob

C10_Witness ==
    /\ Returned
    /\ invoked = <<1, 2, 3>>
    /\ X2.Stage1_Prob = Num(400) /\ X3.Stage2_Prob = Num(700)
    /\ result.stage1_prob = 400 /\ result.stage2_prob = 700 /\ result.stage3_prob = 1000

=============================================================================
